---- MODULE Spec2Model ----
(***************************************************************************)
(* A model of penrose's drawing abstraction (src/src/draw/mod.rs):         *)
(* XCBDraw (the connection, the font registry, the surface registry) and   *)
(* XCBDrawContext (a cairo context on one surface, the active font and a   *)
(* private copy of the font registry).                                     *)
(*                                                                         *)
(* The X server and cairo/pango are modelled by what the program asks of   *)
(* them: the requests written to the connection, the windows the server    *)
(* holds once the requests are flushed, the translation and the source     *)
(* colour of each cairo context, the description a layout is given.        *)
(* Coordinates and paddings are f64 in the program; the model draws them   *)
(* from integer (pixel) values, on which f64 arithmetic is exact.          *)
(***************************************************************************)
EXTENDS Integers, Sequences, FiniteSets, TLC

VARIABLES
    nextId,      \* the next resource id conn.generate_id() hands out
    pending,     \* requests written to the connection and not yet flushed
    windows,     \* the display server's windows: id -> attributes
    fonts,       \* XCBDraw.fonts: name -> font description
    surfaces,    \* XCBDraw.surfaces: window id -> cairo surface
    ctxs,        \* the caller's XCBDrawContext values: slot -> context or NoCtx
    registered,  \* history: the names passed to register_font so far
    returned,    \* history: the ids new_window has returned so far
    last         \* the last call: its name, arguments, result and effects

vars == <<nextId, pending, windows, fonts, surfaces, ctxs, registered, returned, last>>

----------------------------------------------------------------------------
(* Bounds of the model                                                     *)

MaxWindows == 2     \* calls of generate_id
MaxCtx == 1         \* context values the caller holds at once
MaxPending == 1     \* unflushed map/unmap requests
MaxCoord == 1       \* |translation| of a context between calls
MaxPix == 1         \* largest width/height pango measures

(* Program constants                                                       *)

U16 == 65536        \* `width as u16`: the value modulo 2^16
PANGO_SCALE == 1024 \* pango::SCALE

NoCtx == [live |-> FALSE]   \* a slot of the caller that holds no context
WindowTypes == {"Dock", "Menu", "Normal"}
Dims == {<<20, 10>>, <<65556, 65546>>}
FontNames == {"mono", "mono 12"}
PointSizes == {10, 12}
WinIds == 1..MaxWindows
Slots == 1..MaxCtx

----------------------------------------------------------------------------
(* Pure functions                                                          *)

\* WindowType::as_ewmh_str
as_ewmh_str(t) ==
    CASE t = "Dock" -> "_NET_WM_WINDOW_TYPE_DOCK"
      [] t = "Menu" -> "_NET_WM_WINDOW_TYPE_MENU"
      [] t = "Normal" -> "_NET_WM_WINDOW_TYPE_NORMAL"

\* `w as i32` on a usize: the identity below 2^31, which every Int of the
\* model is.
AsI32(n) == n

\* `width as u16` on an i32: truncation to the low 16 bits.
AsU16(n) == n % U16

\* A request on the connection.
Req(kind, wid, width, height, data) ==
    [req |-> kind, wid |-> wid, width |-> width, height |-> height, data |-> data]

\* What the server does with one request.
ServerApply(ws, r) ==
    CASE r.req = "create_window" ->
           [i \in DOMAIN ws \cup {r.wid} |->
               IF i = r.wid
               THEN [width |-> r.width, height |-> r.height,
                     wtype |-> "", mapped |-> FALSE]
               ELSE ws[i]]
      [] r.req = "change_property" /\ r.wid \in DOMAIN ws ->
           [ws EXCEPT ![r.wid].wtype = r.data]
      [] r.req = "map_window" /\ r.wid \in DOMAIN ws ->
           [ws EXCEPT ![r.wid].mapped = TRUE]
      [] r.req = "unmap_window" /\ r.wid \in DOMAIN ws ->
           [ws EXCEPT ![r.wid].mapped = FALSE]
      [] OTHER -> ws

RECURSIVE ServerApplyAll(_, _)
ServerApplyAll(ws, rs) ==
    IF rs = <<>> THEN ws
    ELSE ServerApplyAll(ServerApply(ws, Head(rs)), Tail(rs))

EmptyFn == [x \in {} |-> 0]

----------------------------------------------------------------------------
Init ==
    /\ nextId = 1
    /\ pending = <<>>
    /\ windows = EmptyFn
    /\ fonts = EmptyFn
    /\ surfaces = EmptyFn
    /\ ctxs = [c \in Slots |-> NoCtx]
    /\ registered = {}
    /\ returned = {}
    /\ last = [op |-> "new"]

----------------------------------------------------------------------------
(* Draw                                                                    *)

Outcomes == {"ok", "screen_err", "atom1_err", "atom2_err", "visual_err", "surface_err"}

\* Mutant of create_window: the window is mapped before its type is set.
create_window_map_first(id, t, width, height, outcome) ==
    LET create == Req("create_window", id, width, height, "")
        atom1  == Req("intern_atom", 0, 0, 0, "_NET_WM_WINDOW_TYPE")
        atom2  == Req("intern_atom", 0, 0, 0, "UTF8_STRING")
        prop   == Req("change_property", id, 0, 0, as_ewmh_str(t))
        map    == Req("map_window", id, 0, 0, "")
        flush  == Req("flush", 0, 0, 0, "")
    IN  CASE outcome = "atom1_err" -> [ok |-> FALSE, reqs |-> <<create, map, atom1>>]
          [] outcome = "atom2_err" -> [ok |-> FALSE, reqs |-> <<create, map, atom1, atom2>>]
          [] OTHER -> [ok |-> TRUE, reqs |-> <<create, map, atom1, atom2, prop, flush>>]

\* create_window (lines 63-104): the requests it writes, in order, up to the
\* point where it returns.  A failing intern_atom returns through `?` before
\* change_property is written; waiting for the atom's reply sends what was
\* written so far.
create_window(id, t, width, height, outcome) ==
    LET create == Req("create_window", id, width, height, "")
        atom1  == Req("intern_atom", 0, 0, 0, "_NET_WM_WINDOW_TYPE")
        atom2  == Req("intern_atom", 0, 0, 0, "UTF8_STRING")
        prop   == Req("change_property", id, 0, 0, as_ewmh_str(t))
        map    == Req("map_window", id, 0, 0, "")
        flush  == Req("flush", 0, 0, 0, "")
    IN  CASE outcome = "atom1_err" -> [ok |-> FALSE, reqs |-> <<create, atom1>>]
          [] outcome = "atom2_err" -> [ok |-> FALSE, reqs |-> <<create, atom1, atom2>>]
          [] OTHER -> [ok |-> TRUE, reqs |-> <<create, atom1, atom2, prop, map, flush>>]

\* new_cairo_surface (lines 21-49): the window is created with the sizes cast
\* to u16, the surface with the i32 sizes.
new_cairo_surface(id, t, width, height, outcome) ==
    LET cw == create_window(id, t, AsU16(width), AsU16(height), outcome)
    IN  [ok      |-> cw.ok /\ outcome \notin {"visual_err", "surface_err"},
         reqs    |-> cw.reqs,
         surface |-> [drawable |-> id, width |-> width, height |-> height]]

\* XCBDraw::new_window (lines 218-224)
NewWindow(t, w, h, outcome) ==
    IF outcome = "screen_err"
    THEN /\ last' = [op |-> "new_window", ok |-> FALSE, reqs |-> <<>>,
                     t |-> t, w |-> w, h |-> h, id |-> 0]
         /\ UNCHANGED <<nextId, pending, windows, fonts, surfaces, ctxs,
                        registered, returned>>
    ELSE /\ nextId <= MaxWindows
         /\ LET id == nextId
                r  == new_cairo_surface(id, t, AsI32(w), AsI32(h), outcome)
            IN  /\ nextId' = nextId + 1
                /\ windows' = ServerApplyAll(windows, pending \o r.reqs)
                /\ pending' = <<>>
                /\ surfaces' = IF r.ok
                               THEN [i \in DOMAIN surfaces \cup {id} |->
                                        IF i = id THEN r.surface ELSE surfaces[i]]
                               ELSE surfaces
                /\ returned' = IF r.ok THEN returned \cup {id} ELSE returned
                /\ last' = [op |-> "new_window", ok |-> r.ok, reqs |-> r.reqs,
                            t |-> t, w |-> w, h |-> h, id |-> id]
         /\ UNCHANGED <<fonts, ctxs, registered>>

\* pango's FontDescription::from_string: the family, and the size when the
\* string ends in one (in pango units).
FromString(name) ==
    CASE name = "mono"    -> [family |-> "mono", size |-> 0]
      [] name = "mono 12" -> [family |-> "mono", size |-> 12 * PANGO_SCALE]

\* XCBDraw::register_font (lines 231-234)
RegisterFont(name) ==
    /\ fonts' = [n \in DOMAIN fonts \cup {name} |->
                    IF n = name THEN FromString(name) ELSE fonts[n]]
    /\ registered' = registered \cup {name}
    /\ last' = [op |-> "register_font", ok |-> TRUE, name |-> name]
    /\ UNCHANGED <<nextId, pending, windows, surfaces, ctxs, returned>>

\* Mutant of SurfaceGet: an absent key gets a default surface.
SurfaceGetDefault(id) ==
    IF id \in DOMAIN surfaces THEN <<surfaces[id]>>
    ELSE <<[drawable |-> id, width |-> 0, height |-> 0]>>

\* self.surfaces.get(&id) (lines 238-240)
SurfaceGet(id) == IF id \in DOMAIN surfaces THEN <<surfaces[id]>> ELSE <<>>

\* XCBDraw::context_for (lines 236-248); the caller keeps the context in slot c.
ContextFor(id, c) ==
    LET s == SurfaceGet(id)
    IN  IF s = <<>>
        THEN /\ last' = [op |-> "context_for", ok |-> FALSE, id |-> id, c |-> c]
             /\ UNCHANGED <<nextId, pending, windows, fonts, surfaces, ctxs,
                            registered, returned>>
        ELSE /\ ctxs' = [ctxs EXCEPT ![c] =
                            [live |-> TRUE, surface |-> s[1].drawable,
                             tx |-> 0, ty |-> 0, source |-> <<0, 0, 0>>,
                             font |-> <<>>, fonts |-> fonts,
                             regAt |-> registered, lastSize |-> 0]]
             /\ last' = [op |-> "context_for", ok |-> TRUE, id |-> id, c |-> c]
             /\ UNCHANGED <<nextId, pending, windows, fonts, surfaces,
                            registered, returned>>

\* XCBDraw::flush (lines 250-252)
Flush ==
    /\ windows' = ServerApplyAll(windows, pending)
    /\ pending' = <<>>
    /\ last' = [op |-> "flush", ok |-> TRUE]
    /\ UNCHANGED <<nextId, fonts, surfaces, ctxs, registered, returned>>

\* XCBDraw::map_window (lines 254-256)
MapWindow(id) ==
    /\ Len(pending) < MaxPending
    /\ pending' = Append(pending, Req("map_window", id, 0, 0, ""))
    /\ last' = [op |-> "map_window", ok |-> TRUE, id |-> id]
    /\ UNCHANGED <<nextId, windows, fonts, surfaces, ctxs, registered, returned>>

\* XCBDraw::unmap_window (lines 258-260)
UnmapWindow(id) ==
    /\ Len(pending) < MaxPending
    /\ pending' = Append(pending, Req("unmap_window", id, 0, 0, ""))
    /\ last' = [op |-> "unmap_window", ok |-> TRUE, id |-> id]
    /\ UNCHANGED <<nextId, windows, fonts, surfaces, ctxs, registered, returned>>

Next ==
    \/ \E t \in WindowTypes, d \in Dims, o \in Outcomes : NewWindow(t, d[1], d[2], o)
    \/ \E n \in FontNames : RegisterFont(n)
    \/ \E id \in WinIds, c \in Slots : ContextFor(id, c)
    \/ Flush
    \/ \E id \in WinIds : MapWindow(id)
    \/ \E id \in WinIds : UnmapWindow(id)

Spec == Init /\ [][Next]_vars

----------------------------------------------------------------------------
(* DrawContext                                                             *)

Hexes == {16711680, 33023}        \* 0xFF0000, 0x0080FF
Shifts == {<<1, 0>>, <<0, 1>>, <<-1, -1>>}
Rects == {<<0, 0, 2, 1>>}
Strings == {"", "ab"}
Pads == {<<0, 0, 0, 0>>, <<2, 1, 3, 0>>, <<-3, 0, -3, 1>>}

\* Color::new_from_hex (lines 120-126); each channel is kept as its numerator
\* over 255.
new_from_hex(hex) ==
    <<(hex \div 65536) % 256, (hex \div 256) % 256, hex % 256>>

\* Mutant of FontGet: the lookup goes to the owning Draw's live registry.
FontGetLive(ctx, name) ==
    IF name \in DOMAIN fonts THEN <<fonts[name]>> ELSE <<>>

\* self.fonts.get_mut(font_name) (lines 271-274)
FontGet(ctx, name) ==
    IF name \in DOMAIN ctx.fonts THEN <<ctx.fonts[name]>> ELSE <<>>

\* font.set_size(point_size * pango::SCALE) on the clone (lines 275-276)
Scaled(desc, point_size) == [desc EXCEPT !.size = point_size * PANGO_SCALE]

\* Mutant of Font: the name is recorded before the lookup.
FontRecordFirst(c, name, point_size) ==
    /\ ctxs[c].live
    /\ ctxs' = [ctxs EXCEPT ![c].font = <<name>>, ![c].lastSize = point_size]
    /\ last' = [op |-> "font", ok |-> FontGet(ctxs[c], name) # <<>>, c |-> c,
                name |-> name, before |-> ctxs[c]]
    /\ UNCHANGED <<nextId, pending, windows, fonts, surfaces, registered, returned>>

\* Mutant of Font: a failed lookup clears the active font.
FontClearOnError(c, name, point_size) ==
    /\ ctxs[c].live
    /\ LET d == FontGet(ctxs[c], name)
       IN  /\ ctxs' = [ctxs EXCEPT ![c].font = IF d = <<>> THEN <<>> ELSE <<name>>,
                                    ![c].lastSize = IF d = <<>> THEN @ ELSE point_size]
           /\ last' = [op |-> "font", ok |-> d # <<>>, c |-> c, name |-> name,
                       before |-> ctxs[c]]
    /\ UNCHANGED <<nextId, pending, windows, fonts, surfaces, registered, returned>>

\* XCBDrawContext::font (lines 270-280).  The scaled clone is a local of the
\* call; lastSize keeps the point size of the last successful call as history.
Font(c, name, point_size) ==
    /\ ctxs[c].live
    /\ LET d == FontGet(ctxs[c], name)
       IN  IF d = <<>>
           THEN /\ last' = [op |-> "font", ok |-> FALSE, c |-> c, name |-> name,
                            before |-> ctxs[c]]
                /\ UNCHANGED ctxs
           ELSE /\ ctxs' = [ctxs EXCEPT ![c].font = <<name>>,
                                        ![c].lastSize = point_size]
                /\ last' = [op |-> "font", ok |-> TRUE, c |-> c, name |-> name,
                            before |-> ctxs[c]]
    /\ UNCHANGED <<nextId, pending, windows, fonts, surfaces, registered, returned>>

\* XCBDrawContext::color (lines 282-287)
Color(c, hex) ==
    /\ ctxs[c].live
    /\ ctxs' = [ctxs EXCEPT ![c].source = new_from_hex(hex)]
    /\ last' = [op |-> "color", ok |-> TRUE, c |-> c]
    /\ UNCHANGED <<nextId, pending, windows, fonts, surfaces, registered, returned>>

\* cairo's Context::translate with the scale the context always has (1).
cairo_translate(ctx, x, y) == [ctx EXCEPT !.tx = @ + x, !.ty = @ + y]

InRange(ctx) ==
    /\ ctx.tx \in -MaxCoord..MaxCoord
    /\ ctx.ty \in -MaxCoord..MaxCoord

\* XCBDrawContext::translate (lines 289-291)
Translate(c, x, y) ==
    /\ ctxs[c].live
    /\ InRange(cairo_translate(ctxs[c], x, y))
    /\ ctxs' = [ctxs EXCEPT ![c] = cairo_translate(@, x, y)]
    /\ last' = [op |-> "translate", ok |-> TRUE, c |-> c]
    /\ UNCHANGED <<nextId, pending, windows, fonts, surfaces, registered, returned>>

\* XCBDrawContext::rectangle (lines 293-296): what is filled, in device
\* coordinates.
Rectangle(c, x, y, w, h) ==
    /\ ctxs[c].live
    /\ last' = [op |-> "rectangle", ok |-> TRUE, c |-> c,
                drawn |-> [x |-> ctxs[c].tx + x, y |-> ctxs[c].ty + y,
                           w |-> w, h |-> h, source |-> ctxs[c].source]]
    /\ UNCHANGED <<nextId, pending, windows, fonts, surfaces, ctxs, registered,
                   returned>>

\* `x as usize` on an f64 of integer value: negative values saturate to 0.
AsUsize(x) == IF x < 0 THEN 0 ELSE x

\* Mutant of Extent: the far padding is left out.
ExtentNear(m, a, b) == AsUsize(m + a)

\* (w as f64 + l + r) as usize (lines 316-317)
Extent(m, a, b) == AsUsize(m + a + b)

\* translate(l, t) (line 312): the origin the layout is shown at.
TextShift(ctx, l, t) == cairo_translate(ctx, l, t)

\* Mutant of TextRestore: the origin is left where the layout was shown.
TextRestoreNot(ctx, l, t) == ctx

\* translate(-l, -t) (line 314) after the layout is shown.
TextRestore(ctx, l, t) == cairo_translate(ctx, -l, -t)

\* What pango may measure for s: an empty string has no width.
PixelSizes(s) == (IF s = "" THEN {0} ELSE 0..MaxPix) \X (0..MaxPix)

\* pango_layout (lines 17-19): no layout, or one, told by the size it will
\* measure for s.
Layouts(s) == {<<>>} \cup {<<px>> : px \in PixelSizes(s)}

\* XCBDrawContext::text (lines 298-319).  layout is what pango_layout returns.
Text(c, s, padding, layout) ==
    /\ ctxs[c].live
    /\ LET ctx == ctxs[c]
           l == padding[1]
           r == padding[2]
           t == padding[3]
           b == padding[4]
           px == layout[1]
       IN  IF layout = <<>>
           THEN /\ last' = [op |-> "text", ok |-> FALSE, panic |-> FALSE, c |-> c,
                            before |-> ctx]
                /\ UNCHANGED ctxs
           ELSE IF ctx.font # <<>> /\ FontGet(ctx, ctx.font[1]) = <<>>
           THEN \* unwrap() on a missing description
                /\ last' = [op |-> "text", ok |-> FALSE, panic |-> TRUE, c |-> c,
                            before |-> ctx]
                /\ UNCHANGED ctxs
           ELSE LET desc  == IF ctx.font = <<>> THEN <<>>
                             ELSE FontGet(ctx, ctx.font[1])
                    shown == TextShift(ctx, l, t)
                    after == TextRestore(shown, l, t)
                IN  /\ ctxs' = [ctxs EXCEPT ![c] = after]
                    /\ last' = [op |-> "text", ok |-> TRUE, panic |-> FALSE,
                                c |-> c, before |-> ctx, s |-> s,
                                padding |-> padding, px |-> px, desc |-> desc,
                                shownAt |-> <<shown.tx, shown.ty>>,
                                extent |-> <<Extent(px[1], l, r), Extent(px[2], t, b)>>]
    /\ UNCHANGED <<nextId, pending, windows, fonts, surfaces, registered, returned>>

NextCtx ==
    \/ \E o \in {"ok", "surface_err"} : NewWindow("Dock", 20, 10, o)
    \/ \E n \in FontNames : RegisterFont(n)
    \/ \E id \in WinIds, c \in Slots : ContextFor(id, c)
    \/ \E c \in Slots, n \in FontNames, p \in PointSizes : Font(c, n, p)
    \/ \E c \in Slots, hex \in Hexes : Color(c, hex)
    \/ \E c \in Slots, d \in Shifts : Translate(c, d[1], d[2])
    \/ \E c \in Slots, q \in Rects : Rectangle(c, q[1], q[2], q[3], q[4])
    \/ \E c \in Slots, s \in Strings, p \in Pads :
          \E layout \in Layouts(s) : Text(c, s, p, layout)

SpecCtx == Init /\ [][NextCtx]_vars

----------------------------------------------------------------------------
(* The claims                                                              *)

\* C1: context_for(id) succeeds exactly when id was returned by an earlier
\* successful new_window; the surface registry holds exactly the returned ids,
\* so an entry is never removed.
C1_ContextForIffReturned ==
    /\ DOMAIN surfaces = returned
    /\ last.op = "context_for" => (last.ok <=> last.id \in returned)

\* A context_for that succeeds while another window, created by a new_window
\* that failed, is in no registry.
C1_Witness ==
    /\ last.op = "context_for" /\ last.ok
    /\ DOMAIN windows # returned

\* C2: font(name, _) on a context succeeds exactly for the names registered on
\* the Draw before the context was obtained (its snapshot is those names), so a
\* later register_font does not change the outcome.
C2_FontSnapshot ==
    /\ \A c \in Slots : ctxs[c].live => DOMAIN ctxs[c].fonts = ctxs[c].regAt
    /\ last.op = "font" => (last.ok <=> last.name \in last.before.regAt)
    /\ (last.op = "context_for" /\ last.ok) => ctxs[last.c].regAt = registered

\* font fails on a name that was registered after the context was obtained.
C2_Witness ==
    /\ last.op = "font" /\ ~last.ok
    /\ last.name \in registered

\* C3: a new_window that returns an error has changed nothing: no surface
\* entry, no new window on the server.
C3_NewWindowAtomic ==
    [][(last'.op = "new_window" /\ ~last'.ok)
          => (surfaces' = surfaces /\ DOMAIN windows' = DOMAIN windows)]_vars

\* C4: the requests of one new_window are in the order create-window,
\* change-property (_NET_WM_WINDOW_TYPE, the caller's type), map-window, flush:
\* a map-window is preceded by the change-property, and on success the server
\* holds the window typed and mapped with nothing left unflushed.
C4_RequestOrder ==
    last.op = "new_window" =>
        LET rs == last.reqs
            At(i, kind) == rs[i].req = kind /\ rs[i].wid \in {0, last.id}
        IN  /\ \A j \in 1..Len(rs) : At(j, "map_window") =>
                  \E i \in 1..(j - 1) :
                      /\ At(i, "change_property")
                      /\ rs[i].data = as_ewmh_str(last.t)
                      /\ \E k \in 1..(i - 1) : At(k, "create_window")
            /\ last.ok =>
                  /\ \E j \in 1..Len(rs) :
                        /\ At(j, "map_window")
                        /\ \E k \in (j + 1)..Len(rs) : At(k, "flush")
                  /\ pending = <<>>
                  /\ windows[last.id].mapped
                  /\ windows[last.id].wtype = as_ewmh_str(last.t)

\* A new_window that succeeded.
C4_Witness == last.op = "new_window" /\ last.ok /\ last.t = "Menu"

\* C5: text leaves the translation as it found it; on success the layout was
\* shown with the origin shifted by (left, top), on failure nothing moved.
C5_TextKeepsOrigin ==
    last.op = "text" =>
        /\ ctxs[last.c].tx = last.before.tx
        /\ ctxs[last.c].ty = last.before.ty
        /\ last.ok => last.shownAt = <<last.before.tx + last.padding[1],
                                       last.before.ty + last.padding[3]>>

\* A text with left and top padding on a context that was translated.
C5_Witness ==
    /\ last.op = "text" /\ last.ok
    /\ last.padding[1] # 0 /\ last.padding[3] # 0
    /\ last.before.tx # 0 /\ last.before.ty # 0

\* C6: with a padding of non-negative values, a successful text returns
\* (w + left + right, h + top + bottom) for the measured (w, h).
C6_TextExtent ==
    (/\ last.op = "text" /\ last.ok
     /\ \A i \in 1..4 : last.padding[i] >= 0)
    => last.extent = <<last.px[1] + last.padding[1] + last.padding[2],
                       last.px[2] + last.padding[3] + last.padding[4]>>

\* A text with right padding, a measured size and an active font.
C6_Witness ==
    /\ last.op = "text" /\ last.ok
    /\ last.padding[2] > 0 /\ last.px[1] > 0 /\ last.px[2] > 0
    /\ last.before.font # <<>>

\* C7: after a successful font(name, point_size), the description text gives
\* the layout is the registered one scaled to point_size.
C7_TextAppliesScaled ==
    (last.op = "text" /\ last.ok /\ last.before.font # <<>>)
    => last.desc = <<Scaled(last.before.fonts[last.before.font[1]],
                            last.before.lastSize)>>

\* C8: after a successful new_window(t, w, h) the window and its surface both
\* have width w and height h.
C8_SizesAgree ==
    (last.op = "new_window" /\ last.ok)
    => /\ windows[last.id].width = last.w
       /\ windows[last.id].height = last.h
       /\ surfaces[last.id].width = last.w
       /\ surfaces[last.id].height = last.h

\* C9: the active font of a context is unset or a key of its own snapshot, and
\* text never unwraps a missing description.
C9_ActiveFontKnown ==
    /\ \A c \in Slots : ctxs[c].live =>
          \/ ctxs[c].font = <<>>
          \/ ctxs[c].font[1] \in DOMAIN ctxs[c].fonts
    /\ last.op = "text" => ~last.panic

\* A text with an active font on a context whose snapshot lacks a name.
C9_Witness ==
    /\ last.op = "text" /\ last.ok
    /\ last.before.font # <<>>
    /\ DOMAIN last.before.fonts # FontNames

\* C10: a font call that fails leaves the context (active font and snapshot)
\* as it was.
C10_FailedFontNoChange ==
    (last.op = "font" /\ ~last.ok) => ctxs[last.c] = last.before

\* A failed font call on a context with an active font.
C10_Witness ==
    /\ last.op = "font" /\ ~last.ok
    /\ last.before.font # <<>>

====
